---- MODULE Spec2Model ----
(***************************************************************************)
(* Session tracker (scripts/session-tracker.js, config.js): the persisted  *)
(* session store, the lifecycle commands start / end, the warning          *)
(* scheduler with its per-process timer list, and the auto-detection       *)
(* event handlers.                                                         *)
(*                                                                         *)
(* Time is counted in units of 5 minutes (300000 ms): every duration of    *)
(* the defaults (5, 10, 15, 25, 30, 60, 90 minutes, 5 hours) is a whole    *)
(* number of units.  A command-line invocation is one process; processes   *)
(* share the store file, each owns its own warningTimeouts.                *)
(***************************************************************************)
EXTENDS Integers, Sequences, FiniteSets

\* ---------------------------------------------------------------- bounds
\* sessions the store may hold
MaxSessions == 2
\* last clock value at which a command, a signal or an external event arrives
MaxTime == 1
\* at most this many log entries are counted for one detected session
MaxMessages == 2

\* resident tracker processes (`start` or `auto`); `end` is a command line
\* of its own that exits at once
Procs == {1}

\* endTime: null / duration: null / claudeSessionId: null, and a number or
\* timestamp field that a stored document does not have
Null == -1
\* a text or object field that a stored document does not have
Absent == "absent"
\* the version field of a store file that JSON.parse rejects
Unparseable == "unparseable"

Modes == {"claude-max", "pomodoro", "deep-work", "quick-fix", "custom"}
\* --duration values in units (0: option absent)
CustomDurations == {0, 2}
\* sessionId values of the external activity log
ExtIds == {1, 2}
\* timestamps of the first log entry of an external session
ExtStartTimes == {0}
\* token counters of a detected session (one aggregate counter)
TokenVals == {1}
\* timestamps of log entries: 6 h 40 min before the epoch of the clock, and
\* at the epoch
EntryTimes == {-80, 0}
\* usage.input_tokens + usage.output_tokens of a log entry
UsageVals == {2}

VARIABLES
    now,              \* wall clock, in units
    file,             \* .claude-sessions.json: <<>> when absent, else <<document>>
    proc,             \* per process slot: the command it runs and its options
    timers,           \* per process: the runtime's pending one-shot timers
    warningTimeouts,  \* per process: the handles pushed by the scheduler
    nextHandle,       \* per process: next fresh timer handle
    detected,         \* per auto process: the detector's activeSessions map
    poller,           \* per auto process: isWatching, initial scan, interval, watchers
    cycle,            \* per process: what the last arm was asked and scheduled
    log,              \* per process: callbacks fired since the last arm
    cancelled,        \* per process: timers that were pending when disarmed
    out,              \* what the last start or end reported
    writing,          \* <<>>, or <<document>> that a writeFileSync in progress will leave
    env,              \* environment: `claude --version` works, file system writable
    config            \* timerModes of the Config object (mem), of its defaults, of
                      \* config.json (disk); shared: mem and defaults are one object

vars ==
    <<now, file, proc, timers, warningTimeouts, nextHandle, detected, poller, cycle,
      log, cancelled, out, writing, env, config>>

\* ------------------------------------------------------------ config.js
NoConfig ==
    [name |-> "none", duration |-> 0, warnings |-> <<>>, autoEnd |-> FALSE,
     breakDuration |-> 0]

\* getDefaults().timerModes; breakDuration 0 stands for an absent field
defaultTimerModes(mode) ==
    CASE mode = "claude-max" ->
           [name |-> "Claude Max", duration |-> 60, warnings |-> <<6, 2>>,
            autoEnd |-> FALSE, breakDuration |-> 0]
      [] mode = "pomodoro" ->
           [name |-> "Pomodoro", duration |-> 5, warnings |-> <<1>>,
            autoEnd |-> TRUE, breakDuration |-> 1]
      [] mode = "deep-work" ->
           [name |-> "Deep Work", duration |-> 18, warnings |-> <<3, 1>>,
            autoEnd |-> TRUE, breakDuration |-> 0]
      [] mode = "quick-fix" ->
           [name |-> "Quick Fix", duration |-> 3, warnings |-> <<1>>,
            autoEnd |-> TRUE, breakDuration |-> 0]
      [] mode = "custom" ->
           [name |-> "Custom", duration |-> 12, warnings |-> <<2>>,
            autoEnd |-> FALSE, breakDuration |-> 0]
      [] OTHER -> NoConfig

\* the timerModes object of a configuration made of the defaults
DefaultTimerModes ==
    [mode \in Modes |-> defaultTimerModes(mode)]

getTimerModeClaudeMaxOnly(mode) ==
    defaultTimerModes("claude-max")

\* Config.getTimerMode: the mode of the loaded configuration, else the
\* claude-max default
getTimerMode(mode) ==
    IF mode \in DOMAIN config.disk THEN config.disk[mode]
    ELSE defaultTimerModes("claude-max")

\* sessions.maxHours = 5 -> MAX_SESSION_MS, and the two legacy warning times
MAX_SESSION_MS == 60
WARNING_30_MIN == 6
WARNING_10_MIN == 2

\* ------------------------------------------------------- session store
\* loadData's fallback document (no file)
FreshDoc(t) ==
    [version |-> "2.0.0", sessions |-> <<>>, totalUsage |-> 0, lastReset |-> t,
     monthlySessionCount |-> 0, lastMonthReset |-> t, lastUpdate |-> Null,
     claudeCodeStatus |-> Absent]

migrateSessionStampsEnd(session) ==
    [session EXCEPT !.mode = "claude-max", !.tokens = 0, !.project = "detected",
                    !.warnings = "unfired",
                    !.endTime = IF @ = Null THEN session.startTime ELSE @]

\* one stored record mapped by migrateDataStructure: a record that has
\* project and tokens is returned as it is, any other is rebuilt
migrateSession(session) ==
    IF session.project # Absent /\ session.tokens # Null THEN session
    ELSE [id |-> session.id, startTime |-> session.startTime,
          endTime |-> session.endTime, duration |-> session.duration,
          mode |-> "claude-max", claudeSessionId |-> session.claudeSessionId,
          tokens |-> 0, timerConfig |-> NoConfig, project |-> "detected",
          warnings |-> "unfired"]

migrateDataStructureAnyVersion(data, t) ==
    [data EXCEPT !.version = "2.0.0",
                 !.sessions = [i \in DOMAIN @ |-> migrateSession(@[i])],
                 !.lastUpdate = Null, !.claudeCodeStatus = Absent]

migrateDataStructure(data, t) ==
    IF data.version = "2.0.0" THEN data
    ELSE [version |-> "2.0.0",
          sessions |-> [i \in DOMAIN data.sessions |-> migrateSession(data.sessions[i])],
          totalUsage |-> IF data.totalUsage = Null THEN 0 ELSE data.totalUsage,
          lastReset |-> IF data.lastReset = Null THEN t ELSE data.lastReset,
          monthlySessionCount |->
              IF data.monthlySessionCount = Null THEN 0 ELSE data.monthlySessionCount,
          lastMonthReset |-> IF data.lastMonthReset = Null THEN t ELSE data.lastMonthReset,
          lastUpdate |-> Null,
          claudeCodeStatus |-> Absent]

\* loadData: no file, or a file that does not parse, gives the fallback
loadData(f, t) ==
    IF f = <<>> THEN FreshDoc(t)
    ELSE IF f[1].version = Unparseable THEN FreshDoc(t)
    ELSE migrateDataStructure(f[1], t)

saveDataClearsUsage(data, t) ==
    IF env.writable
    THEN <<[data EXCEPT !.lastUpdate = t, !.claudeCodeStatus = env.claude,
                        !.totalUsage = 0]>>
    ELSE file

\* the file content after saveData(data) at time t; a failed write is
\* caught and leaves the file as it was
saveData(data, t) ==
    IF env.writable
    THEN <<[data EXCEPT !.lastUpdate = t, !.claudeCodeStatus = env.claude]>>
    ELSE file

activeSessionsNegated(data) ==
    {i \in DOMAIN data.sessions : data.sessions[i].endTime # Null}

\* data.sessions.filter(s => !s.endTime), as the set of positions
activeSessions(data) ==
    {i \in DOMAIN data.sessions : data.sessions[i].endTime = Null}

\* activeSessions[0]
firstActive(data) ==
    CHOOSE i \in activeSessions(data) : \A j \in activeSessions(data) : i <= j

resetCountersEveryLoad(data, t) ==
    [data EXCEPT !.totalUsage = 0, !.lastReset = t]

\* start: monthly (30 days) and daily (24 h = 288 units) counter resets
resetCounters(data, t) ==
    LET m == IF t - data.lastMonthReset >= 30 * 288
             THEN [data EXCEPT !.monthlySessionCount = 0, !.lastMonthReset = t]
             ELSE data
    IN  IF t - m.lastReset >= 288
        THEN [m EXCEPT !.totalUsage = 0, !.lastReset = t]
        ELSE m

\* start: config.getTimerMode(mode) with the --duration override of mode custom
resolveTimerConfig(mode, customDuration) ==
    LET timerConfig == getTimerMode(mode)
    IN  IF customDuration # 0 /\ mode = "custom"
        THEN [timerConfig EXCEPT !.duration = customDuration]
        ELSE timerConfig

\* the session record built by start
newSession(id, t, mode, timerConfig) ==
    [id |-> id, startTime |-> t, endTime |-> Null, duration |-> Null,
     mode |-> mode, claudeSessionId |-> Null, tokens |-> 0,
     timerConfig |-> timerConfig, project |-> "detected", warnings |-> "unfired"]

\* the session record built by autoStartSession
autoSession(id, ext, startTime, tokens) ==
    [id |-> id, startTime |-> startTime, endTime |-> Null, duration |-> Null,
     mode |-> "claude-max", claudeSessionId |-> ext, tokens |-> tokens,
     timerConfig |-> NoConfig, project |-> "detected", warnings |-> "unfired"]

startDataPrepends(data, t, mode, timerConfig) ==
    [data EXCEPT !.monthlySessionCount = @ + 1,
                 !.sessions = <<newSession(Len(@) + 1, t, mode, timerConfig)>> \o @]

\* start, no active session: count the session, append it
startData(data, t, mode, timerConfig) ==
    [data EXCEPT !.monthlySessionCount = @ + 1,
                 !.sessions = Append(@, newSession(Len(@) + 1, t, mode, timerConfig))]

startFileAlwaysAppends(f, t, mode, customDuration) ==
    LET data == resetCounters(loadData(f, t), t)
    IN  saveData(startData(data, t, mode, resolveTimerConfig(mode, customDuration)), t)

\* start: the file content it leaves (no save when a session is active)
startFile(f, t, mode, customDuration) ==
    LET data == resetCounters(loadData(f, t), t)
    IN  IF activeSessions(data) # {} THEN f
        ELSE saveData(startData(data, t, mode, resolveTimerConfig(mode, customDuration)), t)

endSessionWrongDuration(session, t) ==
    [session EXCEPT !.endTime = t, !.duration = t]

\* end: session.endTime = now; session.duration = now - startTime
endSession(session, t) ==
    [session EXCEPT !.endTime = t, !.duration = t - session.startTime]

\* the accumulator after `undefined + duration`: NaN, which JSON.stringify
\* writes as null
NotANumber == -2

\* data.totalUsage += duration, as the save leaves it: a missing field gives
\* NaN (written as null), a stored null counts as 0
addUsage(totalUsage, duration) ==
    IF totalUsage = Null THEN NotANumber
    ELSE IF totalUsage = NotANumber THEN duration
    ELSE totalUsage + duration

\* end, with an active session: close the first one, add to the daily usage
endData(data, t) ==
    LET i == firstActive(data)
    IN  [data EXCEPT !.sessions[i] = endSession(@, t),
                     !.totalUsage = addUsage(@, endSession(data.sessions[i], t).duration)]

endFileAlwaysSaves(f, t) ==
    LET data == loadData(f, t)
    IN  IF activeSessions(data) = {} THEN saveData(data, t)
        ELSE saveData(endData(data, t), t)

\* end: the file content it leaves (no save when nothing is active)
endFile(f, t) ==
    LET data == loadData(f, t)
    IN  IF activeSessions(data) = {} THEN f
        ELSE saveData(endData(data, t), t)

\* --------------------------------------------------- warning scheduler
\* the callbacks the warnings.forEach loop hands to setTimeout: one per
\* offset whose trigger time is after t, in the order of the offsets
RECURSIVE modeWarnings(_, _, _)
modeWarnings(warnings, expiryTime, t) ==
    IF warnings = <<>> THEN <<>>
    ELSE LET warningTime == Head(warnings)
             warningTriggerTime == expiryTime - warningTime
             timeUntilWarning == warningTriggerTime - t
             rest == modeWarnings(Tail(warnings), expiryTime, t)
         IN  IF timeUntilWarning > 0
             THEN <<[kind |-> "warning", offset |-> warningTime,
                     fireAt |-> warningTriggerTime, brk |-> 0, h |-> 0]>> \o rest
             ELSE rest

RECURSIVE modeWarningsNotPast(_, _, _)
modeWarningsNotPast(warnings, expiryTime, t) ==
    IF warnings = <<>> THEN <<>>
    ELSE LET warningTime == Head(warnings)
             warningTriggerTime == expiryTime - warningTime
             rest == modeWarningsNotPast(Tail(warnings), expiryTime, t)
         IN  IF warningTriggerTime - t >= 0
             THEN <<[kind |-> "warning", offset |-> warningTime,
                     fireAt |-> warningTriggerTime, brk |-> 0, h |-> 0]>> \o rest
             ELSE rest

scheduleWarningsForModeNotPast(sessionStart, timerConfig, t) ==
    LET expiryTime == sessionStart + timerConfig.duration
    IN  modeWarningsNotPast(timerConfig.warnings, expiryTime, t) \o
        (IF expiryTime - t >= 0
         THEN <<[kind |-> IF timerConfig.autoEnd THEN "autoEnd" ELSE "expired",
                 offset |-> 0, fireAt |-> expiryTime,
                 brk |-> timerConfig.breakDuration, h |-> 0]>>
         ELSE <<>>)

\* scheduleWarningsForMode after its clearWarnings(): the timers it sets, in
\* the order it pushes them (handles are given when they are set)
scheduleWarningsForMode(sessionStart, timerConfig, t) ==
    LET expiryTime == sessionStart + timerConfig.duration
        timeUntilEnd == expiryTime - t
    IN  modeWarnings(timerConfig.warnings, expiryTime, t) \o
        (IF timerConfig.autoEnd
         THEN IF timeUntilEnd > 0
              THEN <<[kind |-> "autoEnd", offset |-> 0, fireAt |-> expiryTime,
                      brk |-> timerConfig.breakDuration, h |-> 0]>>
              ELSE <<>>
         ELSE IF timeUntilEnd > 0
              THEN <<[kind |-> "expired", offset |-> 0, fireAt |-> expiryTime,
                      brk |-> 0, h |-> 0]>>
              ELSE <<>>)

\* scheduleWarnings after its clearWarnings(): the fixed 5-hour schedule
scheduleWarnings(sessionStart, t) ==
    LET warning30Time == sessionStart + (MAX_SESSION_MS - WARNING_30_MIN)
        warning10Time == sessionStart + (MAX_SESSION_MS - WARNING_10_MIN)
        expiryTime == sessionStart + MAX_SESSION_MS
    IN  (IF warning30Time - t > 0
         THEN <<[kind |-> "warning", offset |-> WARNING_30_MIN,
                 fireAt |-> warning30Time, brk |-> 0, h |-> 0]>>
         ELSE <<>>) \o
        (IF warning10Time - t > 0
         THEN <<[kind |-> "warning", offset |-> WARNING_10_MIN,
                 fireAt |-> warning10Time, brk |-> 0, h |-> 0]>>
         ELSE <<>>) \o
        (IF expiryTime - t > 0
         THEN <<[kind |-> "expired", offset |-> 0, fireAt |-> expiryTime,
                 brk |-> 0, h |-> 0]>>
         ELSE <<>>)

\* start with an active session: the schedule it re-arms
rearmSchedule(activeSession, t) ==
    scheduleWarnings(activeSession.startTime, t)

clearWarningsForgetsTimers(ts, handles) ==
    ts

\* clearWarnings: clearTimeout on every handle of warningTimeouts; the
\* timers left pending in the runtime
clearWarnings(ts, handles) ==
    {x \in ts : \A i \in DOMAIN handles : handles[i] # x.h}

oneShotRepeats(ts, x) ==
    ts

\* setTimeout is one-shot: a timer that has fired is no longer pending
oneShot(ts, x) ==
    ts \ {x}

\* the sequence sched with handles first, first + 1, ...
withHandles(sched, first) ==
    [i \in DOMAIN sched |-> [sched[i] EXCEPT !.h = first + i - 1]]

Range(seq) ==
    {seq[i] : i \in DOMAIN seq}

\* the timers of ts that handles refers to
pendingOf(ts, handles) ==
    {x \in ts : \E i \in DOMAIN handles : handles[i] = x.h}

NoCycle ==
    [kind |-> "none", sid |-> 0, start |-> 0, cfg |-> NoConfig, at |-> 0,
     armed |-> <<>>]

NoProc ==
    [cmd |-> "none", autoStart |-> FALSE, timerModes |-> <<>>]

\* a detector as constructed: not watching, no interval, no watcher
NoPoller ==
    [isWatching |-> FALSE, scan |-> "idle", pollingTimer |-> FALSE,
     watchedFiles |-> {}]

\* process p runs clearWarnings() and then sets and pushes the timers of sched
Arm(p, kind, session, cfg, sched) ==
    LET armed == withHandles(sched, nextHandle[p])
    IN  /\ timers' = [timers EXCEPT
               ![p] = clearWarnings(@, warningTimeouts[p]) \cup Range(armed)]
        /\ warningTimeouts' = [warningTimeouts EXCEPT
               ![p] = [i \in DOMAIN armed |-> armed[i].h]]
        /\ nextHandle' = [nextHandle EXCEPT ![p] = @ + Len(sched)]
        /\ cancelled' = [cancelled EXCEPT
               ![p] = @ \cup pendingOf(timers[p], warningTimeouts[p])]
        /\ cycle' = [cycle EXCEPT
               ![p] = [kind |-> kind, sid |-> session.id, start |-> session.startTime,
                       cfg |-> cfg, at |-> now, armed |-> armed]]
        /\ log' = [log EXCEPT ![p] = <<>>]

\* commands and external events arrive while the clock is within MaxTime;
\* after that only the armed timers run
InWindow ==
    now <= MaxTime

\* a command line is run in the lowest free process slot
FreeSlot(p) ==
    /\ InWindow
    /\ proc[p].cmd = "none"
    /\ \A q \in Procs : q < p => proc[q].cmd # "none"

\* ------------------------------------------------------------- actions
Init ==
    /\ now = 0
    /\ file = <<>>
    /\ proc = [p \in Procs |-> NoProc]
    /\ timers = [p \in Procs |-> {}]
    /\ warningTimeouts = [p \in Procs |-> <<>>]
    /\ nextHandle = [p \in Procs |-> 1]
    /\ detected = [p \in Procs |-> {}]
    /\ poller = [p \in Procs |-> NoPoller]
    /\ cycle = [p \in Procs |-> NoCycle]
    /\ log = [p \in Procs |-> <<>>]
    /\ cancelled = [p \in Procs |-> {}]
    /\ out = "none"
    /\ writing = <<>>
    /\ env = [claude |-> "authenticated", writable |-> TRUE]
    /\ config = [mem |-> DefaultTimerModes, disk |-> DefaultTimerModes,
                 defaults |-> DefaultTimerModes, shared |-> TRUE]

\* the timerModes of the starting process's Config object once start has run:
\* getTimerMode hands out the registry's own entry and start assigns the
\* override to its duration field
startTimerModes(mode, customDuration) ==
    IF customDuration # 0 /\ mode = "custom" /\ mode \in DOMAIN config.disk
    THEN [config.disk EXCEPT ![mode].duration = customDuration]
    ELSE config.disk

\* `session-tracker.js start [--mode m] [--duration d]`
StartCmd(p, mode, customDuration) ==
    /\ FreeSlot(p)
    /\ LET data == resetCounters(loadData(file, now), now)
       IN  IF activeSessions(data) # {}
           THEN LET activeSession == data.sessions[firstActive(data)]
                IN  /\ Arm(p, "rearm", activeSession, NoConfig,
                           rearmSchedule(activeSession, now))
                    /\ out' = "already_active"
           ELSE LET timerConfig == resolveTimerConfig(mode, customDuration)
                    session == newSession(Len(data.sessions) + 1, now, mode, timerConfig)
                IN  /\ Len(data.sessions) < MaxSessions
                    /\ Arm(p, "mode", session, timerConfig,
                           scheduleWarningsForMode(session.startTime, timerConfig, now))
                    /\ out' = "created"
    /\ file' = startFile(file, now, mode, customDuration)
    /\ proc' = [proc EXCEPT ![p] =
                    [cmd |-> "start", autoStart |-> FALSE,
                     timerModes |-> IF activeSessions(resetCounters(loadData(file, now), now)) # {}
                                    THEN config.disk
                                    ELSE startTimerModes(mode, customDuration)]]
    /\ UNCHANGED <<now, detected, poller>>
    /\ UNCHANGED <<writing, env, config>>

\* `session-tracker.js end`: a process of its own, with nothing armed
EndCmd ==
    /\ InWindow
    /\ out' = IF activeSessions(loadData(file, now)) = {} THEN "no_active" ELSE "ended"
    /\ file' = endFile(file, now)
    /\ UNCHANGED <<now, proc, timers, warningTimeouts, nextHandle, detected, poller, cycle,
                   log, cancelled>>
    /\ UNCHANGED <<writing, env, config>>

Fired(x, notified, ended) ==
    [h |-> x.h, kind |-> x.kind, offset |-> x.offset, at |-> now,
     notified |-> notified, ended |-> ended]

\* a warning callback of process p runs: console lines and a notification
FireWarning(p) ==
    \E x \in timers[p] :
        /\ x.kind = "warning"
        /\ x.fireAt <= now
        /\ timers' = [timers EXCEPT ![p] = oneShot(@, x)]
        /\ log' = [log EXCEPT ![p] = Append(@, Fired(x, "warning", 0))]
        /\ UNCHANGED <<now, file, proc, warningTimeouts, nextHandle, detected, poller, cycle,
                       cancelled, out>>
    /\ UNCHANGED <<writing, env, config>>

\* the expiry callback of a schedule without auto-end: a notification only
FireExpired(p) ==
    \E x \in timers[p] :
        /\ x.kind = "expired"
        /\ x.fireAt <= now
        /\ timers' = [timers EXCEPT ![p] = oneShot(@, x)]
        /\ log' = [log EXCEPT ![p] = Append(@, Fired(x, "expired", 0))]
        /\ UNCHANGED <<now, file, proc, warningTimeouts, nextHandle, detected, poller, cycle,
                       cancelled, out>>
    /\ UNCHANGED <<writing, env, config>>

breakNoteAlways(x) ==
    "break"

\* the break notification is shown only when the mode has a breakDuration
breakNote(x) ==
    IF x.brk > 0 THEN "break" ELSE "none"

\* the expiry callback of an auto-end schedule: end(), then the break
\* notification
FireAutoEnd(p) ==
    \E x \in timers[p] :
        /\ x.kind = "autoEnd"
        /\ x.fireAt <= now
        /\ LET data == loadData(file, now)
               left == oneShot(timers[p], x)
           IN  IF activeSessions(data) = {}
               THEN /\ timers' = [timers EXCEPT ![p] = left]
                    /\ log' = [log EXCEPT ![p] = Append(@, Fired(x, breakNote(x), 0))]
                    /\ out' = "no_active"
                    /\ UNCHANGED <<warningTimeouts, cancelled>>
               ELSE LET sid == data.sessions[firstActive(data)].id
                    IN  /\ timers' = [timers EXCEPT
                               ![p] = clearWarnings(left, warningTimeouts[p])]
                        /\ warningTimeouts' = [warningTimeouts EXCEPT ![p] = <<>>]
                        /\ cancelled' = [cancelled EXCEPT
                               ![p] = @ \cup pendingOf(left, warningTimeouts[p])]
                        /\ log' = [log EXCEPT
                               ![p] = Append(@, Fired(x, breakNote(x), sid))]
                        /\ out' = "ended"
        /\ file' = endFile(file, now)
        /\ UNCHANGED <<now, proc, nextHandle, detected, poller, cycle>>
    /\ UNCHANGED <<writing, env, config>>

ResetSlot(p) ==
    /\ proc' = [proc EXCEPT ![p] = NoProc]
    /\ timers' = [timers EXCEPT ![p] = {}]
    /\ warningTimeouts' = [warningTimeouts EXCEPT ![p] = <<>>]
    /\ nextHandle' = [nextHandle EXCEPT ![p] = 1]
    /\ detected' = [detected EXCEPT ![p] = {}]
    /\ poller' = [poller EXCEPT ![p] = NoPoller]
    /\ cycle' = [cycle EXCEPT ![p] = NoCycle]
    /\ log' = [log EXCEPT ![p] = <<>>]
    /\ cancelled' = [cancelled EXCEPT ![p] = {}]

\* a start process can end once none of its timers is pending (at once
\* without --background, on a signal with it)
Exit(p) ==
    /\ proc[p].cmd = "start"
    /\ timers[p] = {}
    /\ ResetSlot(p)
    /\ UNCHANGED <<now, file, out>>
    /\ UNCHANGED <<writing, env, config>>

\* stopMonitoring: close and forget the watchers, clear the interval if set
stopMonitoring(pl) ==
    [pl EXCEPT !.isWatching = FALSE, !.watchedFiles = {}, !.pollingTimer = FALSE]

\* what the SIGINT handler of process p leaves when it calls process.exit:
\* start's handler has run clearWarnings(), auto's has run stopMonitoring()
sigintHandler(p) ==
    IF proc[p].cmd = "start"
    THEN [timers |-> clearWarnings(timers[p], warningTimeouts[p]),
          warningTimeouts |-> <<>>,
          poller |-> poller[p]]
    ELSE [timers |-> timers[p],
          warningTimeouts |-> warningTimeouts[p],
          poller |-> IF poller[p].isWatching THEN stopMonitoring(poller[p])
                     ELSE poller[p]]

\* SIGINT: clearWarnings() (start) or stopMonitoring() (auto), then exit
Sigint(p) ==
    /\ InWindow
    /\ proc[p].cmd # "none"
    /\ ResetSlot(p)
    /\ UNCHANGED <<now, file, out>>
    /\ UNCHANGED <<writing, env, config>>

\* `session-tracker.js auto`; sessions.autoStart is read from the config.
\* startMonitoring is called and nothing runs before its initial scan is
\* over and the polling interval is set
LaunchAuto(p, autoStart) ==
    /\ FreeSlot(p)
    /\ proc' = [proc EXCEPT ![p] = [cmd |-> "auto", autoStart |-> autoStart,
                                    timerModes |-> config.disk]]
    /\ poller' = [poller EXCEPT ![p] = [isWatching |-> TRUE, scan |-> "idle",
                                        pollingTimer |-> TRUE, watchedFiles |-> {}]]
    /\ UNCHANGED <<now, file, timers, warningTimeouts, nextHandle, detected, cycle,
                   log, cancelled, out>>
    /\ UNCHANGED <<writing, env, config>>

\* checkSessionTimeouts: no activity for 6 hours
SIX_HOURS == 72

\* the keys of the detector's activeSessions map
detectedIds(p) ==
    {d.sessionId : d \in detected[p]}

\* processJSONLEntry: the sessionData of the entry's session after the entry
\* is counted (a new record when the map has none)
countEntry(p, ext, timestamp, usage) ==
    LET sessionData ==
            IF ext \in detectedIds(p)
            THEN CHOOSE d \in detected[p] : d.sessionId = ext
            ELSE [sessionId |-> ext, startTime |-> timestamp,
                  lastActivity |-> timestamp, messageCount |-> 0, tokens |-> 0]
    IN  [sessionData EXCEPT !.lastActivity = timestamp,
                            !.messageCount = @ + 1,
                            !.tokens = @ + usage]

\* the first active session of data that carries the external id, 0 if none
carrying(data, ext) ==
    LET S == {i \in DOMAIN data.sessions :
                /\ data.sessions[i].endTime = Null
                /\ data.sessions[i].claudeSessionId = ext}
    IN  IF S = {} THEN 0 ELSE CHOOSE i \in S : \A j \in S : i <= j

\* autoStartSession: the file content it leaves
autoStartFile(f, detectedSession, t) ==
    LET data == loadData(f, t)
        sessionData == autoSession(Len(data.sessions) + 1, detectedSession.sessionId,
                                   detectedSession.startTime, detectedSession.tokens)
    IN  saveData([data EXCEPT !.sessions = Append(@, sessionData)], t)

sessionUpdatedAnySession(f, sessionData, t) ==
    LET data == loadData(f, t)
        S == {i \in DOMAIN data.sessions :
                data.sessions[i].claudeSessionId = sessionData.sessionId}
    IN  IF S = {} THEN f
        ELSE saveData([data EXCEPT
                 !.sessions[CHOOSE i \in S : \A j \in S : i <= j].tokens =
                     sessionData.tokens], t)

\* the session_updated handler: the file content it leaves
sessionUpdated(f, sessionData, t) ==
    LET data == loadData(f, t)
        i == carrying(data, sessionData.sessionId)
    IN  IF i = 0 THEN f
        ELSE saveData([data EXCEPT !.sessions[i].tokens = sessionData.tokens], t)

\* autoEndSession: the file content it leaves
autoEndSession(f, detectedSession, t) ==
    LET data == loadData(f, t)
        i == carrying(data, detectedSession.sessionId)
        duration == t - data.sessions[i].startTime
    IN  IF i = 0 THEN f
        ELSE saveData([data EXCEPT !.sessions[i].endTime = t,
                                   !.sessions[i].duration = duration,
                                   !.sessions[i].tokens = detectedSession.tokens,
                                   !.totalUsage = addUsage(@, duration)], t)

\* checkSessionTimeouts: the sessions of the map it reports as ended
timedOut(sessions, t) ==
    {d \in sessions : d.lastActivity < t - SIX_HOURS}

\* the session_ended handler run for each of them
RECURSIVE endAll(_, _, _)
endAll(f, ended, t) ==
    IF ended = {} THEN f
    ELSE LET d == CHOOSE x \in ended : \A y \in ended : x.sessionId <= y.sessionId
         IN  endAll(autoEndSession(f, d, t), ended \ {d}, t)

\* processJSONLEntry with the handlers it emits to: count the entry, then
\* session_started (autoStartSession with sessions.autoStart) for a session
\* the map did not hold or session_updated for one it held, then
\* checkSessionTimeouts with session_ended for every session it drops
ProcessJSONLEntry(p, ext, timestamp, usage) ==
    /\ InWindow
    /\ proc[p].cmd = "auto"
    /\ LET sessionData == countEntry(p, ext, timestamp, usage)
           wasNew == ext \notin detectedIds(p)
           activeMap == {d \in detected[p] : d.sessionId # ext} \cup {sessionData}
           ended == timedOut(activeMap, now)
           data == loadData(file, now)
           session == autoSession(Len(data.sessions) + 1, ext, sessionData.startTime,
                                  sessionData.tokens)
           handled == IF wasNew
                      THEN IF proc[p].autoStart
                           THEN autoStartFile(file, sessionData, now)
                           ELSE file
                      ELSE sessionUpdated(file, sessionData, now)
       IN  /\ sessionData.messageCount <= MaxMessages
           /\ detected' = [detected EXCEPT ![p] = activeMap \ ended]
           /\ file' = endAll(handled, ended, now)
           /\ IF wasNew /\ proc[p].autoStart
              THEN /\ Len(data.sessions) < MaxSessions
                   /\ Arm(p, "auto", session, NoConfig,
                          scheduleWarnings(session.startTime, now))
              ELSE UNCHANGED <<timers, warningTimeouts, nextHandle, cycle, log,
                               cancelled>>
    /\ UNCHANGED <<now, proc, out>>
    /\ UNCHANGED <<writing, env, config>>

scanForChangesUncaught(dir) ==
    IF dir = "present" THEN "scan"
    ELSE IF dir = "missing" THEN "skip" ELSE "throw"

\* scanForChanges: what a cycle does given the projects directory: scan it,
\* skip the cycle (directory missing), or catch and log the error of a
\* directory that goes away while it is read
scanForChanges(dir) ==
    IF dir = "present" THEN "scan"
    ELSE IF dir = "missing" THEN "skip" ELSE "error"

\* the states of the log directory a polling cycle can meet
DirStates == {"present", "missing", "vanishes"}

\* a tick of the polling interval: nothing when the detector is stopped;
\* else scanForChanges, which hands a new file to monitorFile (its entries
\* are processed and the file is watched) and a changed one to
\* processFileChanges
PollTick(p, dir, ext, timestamp, usage) ==
    /\ InWindow
    /\ proc[p].cmd = "auto"
    /\ poller[p].pollingTimer
    /\ LET cycle_ == IF poller[p].isWatching THEN scanForChanges(dir) ELSE "skip"
       IN  CASE cycle_ = "skip" -> UNCHANGED vars
             [] cycle_ = "error" ->
                  /\ out' = "scan_error"
                  /\ UNCHANGED <<now, file, proc, timers, warningTimeouts, nextHandle,
                                 detected, poller, cycle, log, cancelled, writing, env, config>>
             [] cycle_ = "throw" ->
                  /\ ResetSlot(p)
                  /\ UNCHANGED <<now, file, out, writing, env, config>>
             [] cycle_ = "scan" ->
                  /\ ProcessJSONLEntry(p, ext, timestamp, usage)
                  /\ poller' = [poller EXCEPT ![p].watchedFiles = @ \cup {ext}]

\* the first entry of an external session the detector does not hold yet
OnSessionStarted(p, ext, startTime, tokens) ==
    /\ ext \notin detectedIds(p)
    /\ PollTick(p, "present", ext, startTime, tokens)

AllTimers ==
    UNION {timers[p] : p \in Procs}

\* the clock moves on only when no pending timer is due
Tick ==
    /\ now < MaxTime
    /\ \A x \in AllTimers : x.fireAt > now
    /\ now' = now + 1
    /\ UNCHANGED <<file, proc, timers, warningTimeouts, nextHandle, detected, poller, cycle,
                   log, cancelled, out>>
    /\ UNCHANGED <<writing, env, config>>

\* nothing else happens until the next pending timer is due
JumpToTimer ==
    /\ AllTimers # {}
    /\ \A x \in AllTimers : x.fireAt > now
    /\ now' = (CHOOSE x \in AllTimers : \A y \in AllTimers : x.fireAt <= y.fireAt).fireAt
    /\ UNCHANGED <<file, proc, timers, warningTimeouts, nextHandle, detected, poller, cycle,
                   log, cancelled, out>>
    /\ UNCHANGED <<writing, env, config>>

Next ==
    \/ \E p \in Procs, mode \in Modes, d \in CustomDurations : StartCmd(p, mode, d)
    \/ EndCmd
    \/ \E p \in Procs : FireWarning(p)
    \/ \E p \in Procs : FireExpired(p)
    \/ \E p \in Procs : FireAutoEnd(p)
    \/ \E p \in Procs : Exit(p)
    \/ \E p \in Procs : Sigint(p)
    \/ \E p \in Procs, a \in BOOLEAN : LaunchAuto(p, a)
    \/ \E p \in Procs, ext \in ExtIds, st \in ExtStartTimes, tok \in TokenVals :
           OnSessionStarted(p, ext, st, tok)
    \/ Tick
    \/ JumpToTimer

Spec ==
    Init /\ [][Next]_vars

\* auto-detection alone: the detector process with every kind of log entry
\* (first, repeated, older than six hours), `end` given beside it; all
\* entries arrive at the epoch and the clock moves with the armed timers
NextAuto ==
    \/ \E p \in Procs, a \in BOOLEAN : LaunchAuto(p, a)
    \/ \E p \in Procs, ext \in ExtIds, timestamp \in EntryTimes, usage \in UsageVals :
           PollTick(p, "present", ext, timestamp, usage)
    \/ EndCmd
    \/ \E p \in Procs : FireWarning(p)
    \/ \E p \in Procs : FireExpired(p)
    \/ \E p \in Procs : Sigint(p)
    \/ JumpToTimer

SpecAuto ==
    Init /\ [][NextAuto]_vars

\* ---------------------------------------------- the detector as an object
\* new ClaudeAutoDetector(...) with the tracker's handlers registered
Construct(p, autoStart) ==
    /\ FreeSlot(p)
    /\ proc' = [proc EXCEPT ![p] = [cmd |-> "auto", autoStart |-> autoStart,
                                    timerModes |-> config.disk]]
    /\ UNCHANGED <<now, file, timers, warningTimeouts, nextHandle, detected, poller,
                   cycle, log, cancelled, out>>
    /\ UNCHANGED <<writing, env, config>>

\* startMonitoring up to its first await: isWatching is set and the initial
\* scan is under way (a second scan is not begun while one runs)
StartMonitoring(p) ==
    /\ InWindow
    /\ proc[p].cmd = "auto"
    /\ ~poller[p].isWatching
    /\ poller[p].scan = "idle"
    /\ poller' = [poller EXCEPT ![p].isWatching = TRUE, ![p].scan = "running"]
    /\ UNCHANGED <<now, file, proc, timers, warningTimeouts, nextHandle, detected,
                   cycle, log, cancelled, out>>
    /\ UNCHANGED <<writing, env, config>>

\* the initial scan reaches a log file: monitorFile processes its entries
\* and then watches it; isWatching is not consulted
ScanFile(p, ext, timestamp, usage) ==
    /\ proc[p].cmd = "auto"
    /\ poller[p].scan = "running"
    /\ ext \notin poller[p].watchedFiles
    /\ ProcessJSONLEntry(p, ext, timestamp, usage)
    /\ poller' = [poller EXCEPT ![p].watchedFiles = @ \cup {ext}]

\* the initial scan is over: startMonitoring goes on with startPolling()
ScanDone(p) ==
    /\ InWindow
    /\ proc[p].cmd = "auto"
    /\ poller[p].scan = "running"
    /\ poller' = [poller EXCEPT ![p].scan = "idle", ![p].pollingTimer = TRUE]
    /\ UNCHANGED <<now, file, proc, timers, warningTimeouts, nextHandle, detected,
                   cycle, log, cancelled, out>>
    /\ UNCHANGED <<writing, env, config>>

StopMonitoring(p) ==
    /\ InWindow
    /\ proc[p].cmd = "auto"
    /\ poller[p].isWatching
    /\ poller' = [poller EXCEPT ![p] = stopMonitoring(@)]
    /\ UNCHANGED <<now, file, proc, timers, warningTimeouts, nextHandle, detected,
                   cycle, log, cancelled, out>>
    /\ UNCHANGED <<writing, env, config>>

\* the fs.watch callback of a watched file: processFileChanges
WatchCallback(p, ext, timestamp, usage) ==
    /\ proc[p].cmd = "auto"
    /\ ext \in poller[p].watchedFiles
    /\ ProcessJSONLEntry(p, ext, timestamp, usage)
    /\ UNCHANGED poller

NextPoller ==
    \/ \E p \in Procs : Construct(p, FALSE)
    \/ \E p \in Procs : StartMonitoring(p)
    \/ \E p \in Procs, ext \in ExtIds, timestamp \in EntryTimes, usage \in UsageVals :
           ScanFile(p, ext, timestamp, usage)
    \/ \E p \in Procs : ScanDone(p)
    \/ \E p \in Procs : StopMonitoring(p)
    \/ \E p \in Procs, dir \in DirStates, ext \in ExtIds, timestamp \in EntryTimes,
          usage \in UsageVals : PollTick(p, dir, ext, timestamp, usage)
    \/ \E p \in Procs, ext \in ExtIds, timestamp \in EntryTimes, usage \in UsageVals :
           WatchCallback(p, ext, timestamp, usage)
    \/ \E p \in Procs : Sigint(p)
    \/ Tick

SpecPoller ==
    Init /\ [][NextPoller]_vars

\* ------------------------------------------- store files found on disk
\* a record as the first tracker wrote it: no project, tokens, mode, warnings
legacySession(id, startTime, endTime) ==
    [id |-> id, startTime |-> startTime, endTime |-> endTime,
     duration |-> IF endTime = Null THEN Null ELSE endTime - startTime,
     mode |-> Absent, claudeSessionId |-> Null, tokens |-> Null,
     timerConfig |-> NoConfig, project |-> Absent, warnings |-> Absent]

\* a record that has project and tokens but neither mode nor warnings
partialSession(id, startTime, endTime) ==
    [legacySession(id, startTime, endTime) EXCEPT !.project = "detected", !.tokens = 0]

\* a record as start writes it
currentSession(id, startTime, endTime) ==
    [newSession(id, startTime, "claude-max", defaultTimerModes("claude-max"))
        EXCEPT !.endTime = endTime,
               !.duration = IF endTime = Null THEN Null ELSE endTime - startTime]

\* session lists of the files found; times are before the clock's origin
StoredSessionLists ==
    {<<>>,
     <<legacySession(1, -6, -4)>>, <<legacySession(1, -3, Null)>>,
     <<partialSession(1, -3, Null)>>,
     <<currentSession(1, -6, -4)>>, <<currentSession(1, -3, Null)>>,
     <<legacySession(1, -6, -4), partialSession(2, -3, Null)>>}

StoredVersions == {Absent, "1.0.0", "2.0.0", "3.0.0"}

\* the documents of the files found: reset stamps exactly 24 h / 30 days
\* old, five minutes less, or absent (only where migration supplies them)
StoredDocs ==
    {[version |-> v, sessions |-> ss, totalUsage |-> u, lastReset |-> r,
      monthlySessionCount |-> 2, lastMonthReset |-> m, lastUpdate |-> -3,
      claudeCodeStatus |-> "authenticated"] :
        v \in StoredVersions, ss \in StoredSessionLists, u \in {3},
        r \in {-288, -287}, m \in {-8640, -3}}
    \cup
    {[version |-> Absent, sessions |-> ss, totalUsage |-> Null, lastReset |-> Null,
      monthlySessionCount |-> Null, lastMonthReset |-> Null, lastUpdate |-> Null,
      claudeCodeStatus |-> Absent] : ss \in {<<>>, <<legacySession(1, -3, Null)>>}}

\* a store file whose text is not JSON
UnparseableDoc ==
    [version |-> Unparseable, sessions |-> <<>>, totalUsage |-> Null,
     lastReset |-> Null, monthlySessionCount |-> Null, lastMonthReset |-> Null,
     lastUpdate |-> Null, claudeCodeStatus |-> Absent]

statusFileSavesLoad(f, t) ==
    saveData(loadData(f, t), t)

\* status: the file content it leaves (it never calls saveData)
statusFile(f, t) ==
    f

\* status, with an active session: the remaining time and the indicator it
\* prints for the first active session
statusReport(f, t) ==
    LET data == loadData(f, t)
        session == data.sessions[firstActive(data)]
        elapsed == t - session.startTime
        remaining == IF MAX_SESSION_MS - elapsed > 0 THEN MAX_SESSION_MS - elapsed ELSE 0
    IN  [remaining |-> remaining,
         indicator |-> IF remaining <= 0 THEN "EXPIRED"
                       ELSE IF remaining <= WARNING_10_MIN THEN "CRITICAL"
                       ELSE IF remaining <= WARNING_30_MIN THEN "WARNING"
                       ELSE "ACTIVE"]

\* `session-tracker.js status`: load, print elapsed and remaining time of
\* the first active session or the usage totals, exit
StatusCmd ==
    /\ InWindow
    /\ out' = IF activeSessions(loadData(file, now)) = {} THEN "status_none"
              ELSE "status_active"
    /\ file' = statusFile(file, now)
    /\ UNCHANGED <<now, proc, timers, warningTimeouts, nextHandle, detected, poller, cycle,
                   log, cancelled, writing, env, config>>

\* modes given to start when the store file is what is examined
StoreModes == {"claude-max", "pomodoro"}

\* the tracker is run in a directory that already holds a store file
InitStore ==
    /\ now = 0
    /\ file \in {<<d>> : d \in StoredDocs \cup {UnparseableDoc}}
    /\ proc = [p \in Procs |-> NoProc]
    /\ timers = [p \in Procs |-> {}]
    /\ warningTimeouts = [p \in Procs |-> <<>>]
    /\ nextHandle = [p \in Procs |-> 1]
    /\ detected = [p \in Procs |-> {}]
    /\ poller = [p \in Procs |-> NoPoller]
    /\ cycle = [p \in Procs |-> NoCycle]
    /\ log = [p \in Procs |-> <<>>]
    /\ cancelled = [p \in Procs |-> {}]
    /\ out = "none"
    /\ writing = <<>>
    /\ env \in [claude : {"authenticated", "unauthenticated"}, writable : BOOLEAN]
    /\ config = [mem |-> DefaultTimerModes, disk |-> DefaultTimerModes,
                 defaults |-> DefaultTimerModes, shared |-> TRUE]

NextStore ==
    \/ \E p \in Procs, mode \in StoreModes : StartCmd(p, mode, 0)
    \/ EndCmd
    \/ StatusCmd
    \/ \E p \in Procs : Sigint(p)
    \/ Tick

SpecStore ==
    InitStore /\ [][NextStore]_vars

\* ------------------------------------------ a save seen from outside
\* saveData is fs.writeFileSync(SESSION_FILE, text): the file is opened
\* with truncation and the text is written into it. `end` with an active
\* session up to the truncation: the file is empty or holds a prefix of the
\* text, which JSON.parse rejects
EndTruncates ==
    /\ InWindow
    /\ writing = <<>>
    /\ env.writable
    /\ activeSessions(loadData(file, now)) # {}
    /\ writing' = endFile(file, now)
    /\ file' = <<UnparseableDoc>>
    /\ out' = "ended"
    /\ UNCHANGED <<now, proc, timers, warningTimeouts, nextHandle, detected, poller,
                   cycle, log, cancelled, env, config>>

\* ... and from there to the return of writeFileSync
EndWrites ==
    /\ writing # <<>>
    /\ file' = writing
    /\ writing' = <<>>
    /\ UNCHANGED <<now, proc, timers, warningTimeouts, nextHandle, detected, poller,
                   cycle, log, cancelled, out, env, config>>

NextWrite ==
    \/ \E p \in Procs, mode \in StoreModes : StartCmd(p, mode, 0)
    \/ EndTruncates
    \/ EndWrites
    \/ StatusCmd
    \/ \E p \in Procs : FireWarning(p)
    \/ \E p \in Procs : FireExpired(p)
    \/ \E p \in Procs : FireAutoEnd(p)
    \/ \E p \in Procs : Exit(p)
    \/ \E p \in Procs : Sigint(p)
    \/ Tick
    \/ JumpToTimer

SpecWrite ==
    Init /\ [][NextWrite]_vars

\* ------------------------------------------------- timer mode registry
\* mode names given to setTimerMode / `config set timerModes.<mode>`
ConfigModes == {"custom", "sprint"}

\* config arguments of setTimerMode: duration 0 and hasWarnings FALSE stand
\* for an absent field
ConfigInputs ==
    [duration : {-2, 0, 2}, warnings : {<<1>>, <<3>>}, hasWarnings : BOOLEAN,
     autoEnd : BOOLEAN]

\* Config.saveConfig: config.json after an attempt to write timerModes
saveConfig(modes) ==
    IF env.writable THEN modes ELSE config.disk

\* Config.set on timerModes.<mode>: the timerModes object of this.config
\* with the property assigned
setTimerModes(mode, timerConfig) ==
    [m \in DOMAIN config.mem \cup {mode} |->
        IF m = mode THEN timerConfig ELSE config.mem[m]]

\* the Config object after set has assigned into this.config.timerModes and
\* saved: when that object is the one this.defaults holds (after a first-run
\* load or a reset, both of which copy this.defaults one level deep), the
\* assignment is made in this.defaults too
afterSet(modes) ==
    [mem |-> modes, disk |-> saveConfig(modes),
     defaults |-> IF config.shared THEN modes ELSE config.defaults,
     shared |-> config.shared]

\* Config.setTimerMode(mode, config): fill the absent fields, then set
SetTimerMode(mode, input) ==
    LET timerConfig ==
            [name |-> mode,
             duration |-> IF input.duration # 0 THEN input.duration ELSE 12,
             warnings |-> IF input.hasWarnings THEN input.warnings ELSE <<2>>,
             autoEnd |-> input.autoEnd,
             breakDuration |-> 0]
        modes == setTimerModes(mode, timerConfig)
    IN  /\ config' = afterSet(modes)
        /\ out' = IF env.writable THEN "config_saved" ELSE "config_failed"
        /\ UNCHANGED <<now, file, proc, timers, warningTimeouts, nextHandle, detected, poller,
                       cycle, log, cancelled, writing, env>>

\* `session-tracker.js config set timerModes.<mode> <json>`: the parsed
\* value is stored as it is
ConfigSetCmd(mode, input) ==
    LET value == [name |-> mode, duration |-> input.duration,
                  warnings |-> input.warnings, autoEnd |-> input.autoEnd,
                  breakDuration |-> 0]
        modes == setTimerModes(mode, value)
    IN  /\ input.hasWarnings
        /\ config' = afterSet(modes)
        /\ out' = IF env.writable THEN "config_saved" ELSE "config_failed"
        /\ UNCHANGED <<now, file, proc, timers, warningTimeouts, nextHandle, detected, poller,
                       cycle, log, cancelled, writing, env>>

\* Config.reset, `session-tracker.js config reset`: this.config becomes a
\* one-level copy of this.defaults and is saved
ConfigReset ==
    /\ config' = [mem |-> config.defaults, disk |-> saveConfig(config.defaults),
                  defaults |-> config.defaults, shared |-> TRUE]
    /\ out' = IF env.writable THEN "config_reset" ELSE "config_failed"
    /\ UNCHANGED <<now, file, proc, timers, warningTimeouts, nextHandle, detected, poller,
                   cycle, log, cancelled, writing, env>>

\* mergeWithDefaults: the timerModes of the defaults merged with those read
mergeWithDefaults(userModes) ==
    [m \in DOMAIN DefaultTimerModes \cup DOMAIN userModes |->
        IF m \in DOMAIN userModes THEN userModes[m] ELSE DefaultTimerModes[m]]

\* a new process constructs its Config: getDefaults() and loadConfig() of the
\* existing config.json; the merged timerModes is an object of its own
ConfigLoad ==
    /\ config' = [mem |-> mergeWithDefaults(config.disk), disk |-> config.disk,
                  defaults |-> DefaultTimerModes, shared |-> FALSE]
    /\ out' = "config_loaded"
    /\ UNCHANGED <<now, file, proc, timers, warningTimeouts, nextHandle, detected, poller,
                   cycle, log, cancelled, writing, env>>

\* a fresh installation; the configuration directory may be read-only
InitConfig ==
    /\ now = 0
    /\ file = <<>>
    /\ proc = [p \in Procs |-> NoProc]
    /\ timers = [p \in Procs |-> {}]
    /\ warningTimeouts = [p \in Procs |-> <<>>]
    /\ nextHandle = [p \in Procs |-> 1]
    /\ detected = [p \in Procs |-> {}]
    /\ poller = [p \in Procs |-> NoPoller]
    /\ cycle = [p \in Procs |-> NoCycle]
    /\ log = [p \in Procs |-> <<>>]
    /\ cancelled = [p \in Procs |-> {}]
    /\ out = "none"
    /\ writing = <<>>
    /\ env \in [claude : {"authenticated"}, writable : BOOLEAN]
    /\ config = [mem |-> DefaultTimerModes, disk |-> DefaultTimerModes,
                 defaults |-> DefaultTimerModes, shared |-> TRUE]

NextConfig ==
    \/ \E mode \in ConfigModes, input \in ConfigInputs : SetTimerMode(mode, input)
    \/ \E mode \in ConfigModes, input \in ConfigInputs : ConfigSetCmd(mode, input)
    \/ ConfigReset
    \/ ConfigLoad

SpecConfig ==
    InitConfig /\ [][NextConfig]_vars

\* ------------------------------------------------------------ properties
\* C1: while only the manual start and end commands have written the store
\* (no session carries an external session id), at most one session of the
\* store has no end time.
C1_AtMostOneActive ==
    file # <<>> =>
        LET sessions == file[1].sessions
        IN  (\A i \in DOMAIN sessions : sessions[i].claudeSessionId = Null)
            => Cardinality({i \in DOMAIN sessions : sessions[i].endTime = Null}) <= 1

\* a second start was refused while a manual session, created after an
\* ended one, is the only active session
C1_Witness ==
    /\ file # <<>>
    /\ out = "already_active"
    /\ Len(file[1].sessions) = 2
    /\ \A i \in DOMAIN file[1].sessions : file[1].sessions[i].claudeSessionId = Null
    /\ file[1].sessions[1].endTime # Null
    /\ file[1].sessions[2].endTime = Null

\* C2: a start issued while the store holds an active session, whatever its
\* mode and duration, leaves the session sequence as it was.
C2_StartWhileActiveAppendsNothing ==
    [][ ( /\ \E p \in Procs, mode \in Modes, d \in CustomDurations : StartCmd(p, mode, d)
          /\ file # <<>>
          /\ \E i \in DOMAIN file[1].sessions : file[1].sessions[i].endTime = Null )
        => ( /\ file' # <<>>
             /\ file'[1].sessions = file[1].sessions ) ]_vars

\* a start has found the active session and re-armed its warnings
C2_Witness ==
    \E p \in Procs :
        /\ proc[p].cmd = "start"
        /\ cycle[p].kind = "rearm"
        /\ out = "already_active"
        /\ file[1].sessions[cycle[p].sid].endTime = Null

\* C3: an end issued while no session is active reports that there is none
\* and leaves the store file as it was; nothing is saved.
C3_EndWithoutActive ==
    [][ ( /\ EndCmd \/ \E p \in Procs : FireAutoEnd(p)
          /\ \/ file = <<>>
             \/ \A i \in DOMAIN file[1].sessions : file[1].sessions[i].endTime # Null )
        => ( /\ file' = file
             /\ out' = "no_active" ) ]_vars

\* an end has reported that no session is active
C3_Witness ==
    out = "no_active"

C5_PomodoroScenario ==
    \A p \in Procs :
        LET c == cycle[p]
            fired(k) == {i \in DOMAIN log[p] : log[p][i].kind = k}
        IN  ( /\ proc[p].cmd = "start"
              /\ c.kind = "mode"
              /\ file[1].sessions[c.sid].mode = "pomodoro" )
            => /\ \A i \in fired("warning") :
                      /\ log[p][i].at = c.start + 4
                      /\ log[p][i].notified = "warning"
               /\ Cardinality(fired("warning")) <= 1
               /\ now > c.start + 4 => Cardinality(fired("warning")) = 1
               /\ fired("expired") = {}
               /\ Cardinality(fired("autoEnd")) <= 1
               /\ now > c.start + 5 => Cardinality(fired("autoEnd")) = 1
               /\ \A i \in fired("autoEnd") :
                      LET s == file[1].sessions[c.sid]
                      IN  /\ log[p][i].at = c.start + 5
                          /\ s.endTime # Null
                          /\ s.endTime <= c.start + 5
                          /\ log[p][i].ended = c.sid =>
                                 /\ s.endTime = c.start + 5
                                 /\ s.duration = 5

\* the expiry callback of a pomodoro session has ended that session
C5_Witness ==
    \E p \in Procs :
        /\ proc[p].cmd = "start"
        /\ cycle[p].kind = "mode"
        /\ file[1].sessions[cycle[p].sid].mode = "pomodoro"
        /\ \E i, j \in DOMAIN log[p] :
               /\ log[p][i].kind = "warning"
               /\ log[p][j].kind = "autoEnd"
               /\ log[p][j].ended = cycle[p].sid

\* C6: arming the schedule of a timer config (duration, warningOffsets) for
\* a session start sets one callback per offset plus the expiry callback,
\* |warningOffsets| + 1 in all, when every fire time is after the moment of
\* arming, and fewer when some are not; no callback is set for a fire time
\* that is not after that moment.
C6_ArmSchedulesFutureCallbacks ==
    \A p \in Procs :
        LET c == cycle[p]
            expiry == c.start + c.cfg.duration
            planned == [i \in 1..Len(c.cfg.warnings) |-> expiry - c.cfg.warnings[i]]
                           \o <<expiry>>
            future == {i \in DOMAIN planned : planned[i] > c.at}
        IN  c.kind = "mode" =>
                /\ \A i \in DOMAIN c.armed : c.armed[i].fireAt > c.at
                /\ Len(c.armed) = Cardinality(future)
                /\ future = DOMAIN planned => Len(c.armed) = Len(c.cfg.warnings) + 1
                /\ future # DOMAIN planned => Len(c.armed) < Len(c.cfg.warnings) + 1
                /\ {c.armed[i].fireAt : i \in DOMAIN c.armed} = {planned[i] : i \in future}
                /\ \A i, j \in DOMAIN c.armed : c.armed[i].h = c.armed[j].h => i = j
                /\ timers[p] \subseteq {c.armed[i] : i \in DOMAIN c.armed}

\* a schedule was armed whose warning time was not after the moment of
\* arming: only its expiry callback was set
C6_Witness ==
    \E p \in Procs :
        /\ cycle[p].kind = "mode"
        /\ Len(cycle[p].cfg.warnings) = 1
        /\ cycle[p].start + cycle[p].cfg.duration - cycle[p].cfg.warnings[1] <= cycle[p].at
        /\ Len(cycle[p].armed) = 1
        /\ timers[p] # {}

\* C7 as the specification states it: the expiry callback of an auto-end
\* mode ends the session and shows the break notification; that of any
\* other mode shows the expired notification only and leaves the store.
C7_ExpiryAsStated ==
    [][ \A p \in Procs :
            /\ FireAutoEnd(p) =>
                   /\ cycle[p].cfg.autoEnd
                   /\ log'[p][Len(log'[p])].notified = "break"
                   /\ file'[1].sessions[cycle[p].sid].endTime # Null
            /\ FireExpired(p) =>
                   /\ ~cycle[p].cfg.autoEnd
                   /\ log'[p][Len(log'[p])].notified = "expired"
                   /\ file' = file ]_vars

\* C7: the expiry callback of an auto-end mode runs end, which leaves the
\* session inactive (ended at that moment if it was still active), and
\* shows the break notification only when the mode has a break duration;
\* that of any other mode shows the expired notification only and leaves
\* the store as it is.
C7_ExpiryCallback ==
    [][ \A p \in Procs :
            /\ FireAutoEnd(p) =>
                   /\ cycle[p].cfg.autoEnd
                   /\ log'[p][Len(log'[p])].notified =
                          IF cycle[p].cfg.breakDuration > 0 THEN "break" ELSE "none"
                   /\ file'[1].sessions[cycle[p].sid].endTime # Null
                   /\ file[1].sessions[cycle[p].sid].endTime = Null =>
                          file'[1].sessions[cycle[p].sid].endTime = now
            /\ FireExpired(p) =>
                   /\ ~cycle[p].cfg.autoEnd
                   /\ log'[p][Len(log'[p])].notified = "expired"
                   /\ file' = file ]_vars

\* the expiry callback of an auto-end mode without a break duration has
\* ended its session and shown no break notification
C7_Witness ==
    \E p \in Procs : \E i \in DOMAIN log[p] :
        /\ cycle[p].kind = "mode"
        /\ cycle[p].cfg.autoEnd
        /\ cycle[p].cfg.breakDuration = 0
        /\ log[p][i].kind = "autoEnd"
        /\ log[p][i].ended = cycle[p].sid
        /\ log[p][i].notified = "none"

\* C8 as the specification states it: the schedule that a start re-arms for
\* the session it finds active is the schedule of that session's own timer
\* config: the same fire times and the same expiry action.
C8_RearmUsesSessionConfig ==
    \A p \in Procs :
        cycle[p].kind = "rearm" =>
            LET c == cycle[p]
                s == file[1].sessions[c.sid]
                cfg == IF s.timerConfig = NoConfig THEN getTimerMode(s.mode)
                       ELSE s.timerConfig
                own == scheduleWarningsForMode(s.startTime, cfg, c.at)
            IN  /\ Len(c.armed) = Len(own)
                /\ \A i \in DOMAIN c.armed :
                       /\ c.armed[i].kind = own[i].kind
                       /\ c.armed[i].offset = own[i].offset
                       /\ c.armed[i].fireAt = own[i].fireAt

\* C9: no callback that was pending when its process disarmed ever fires;
\* disarming with nothing armed changes nothing; a process that only
\* disarms (signal handler) leaves the store as it is.
C9_DisarmedCallbacksNeverFire ==
    /\ [](\A p \in Procs :
             /\ \A i \in DOMAIN log[p], x \in cancelled[p] : log[p][i].h # x.h
             /\ cancelled[p] \cap timers[p] = {}
             /\ warningTimeouts[p] = <<>> =>
                    clearWarnings(timers[p], warningTimeouts[p]) = timers[p])
    /\ [][ \A p \in Procs : Sigint(p) => file' = file ]_vars

\* a process disarmed pending callbacks, armed again, and is alive after the
\* fire time of a disarmed callback
C9_Witness ==
    \E p \in Procs :
        /\ proc[p].cmd # "none"
        /\ log[p] # <<>>
        /\ \E x \in cancelled[p] : x.fireAt < now

\* C10: within one arm cycle the callback of each warning offset and the
\* expiry callback fire at most once, and only callbacks of that cycle fire.
C10_AtMostOncePerCycle ==
    \A p \in Procs :
        /\ \A i, j \in DOMAIN log[p] :
               ( /\ log[p][i].kind = log[p][j].kind
                 /\ log[p][i].offset = log[p][j].offset ) => i = j
        /\ \A i \in DOMAIN log[p] :
               \E k \in DOMAIN cycle[p].armed : cycle[p].armed[k].h = log[p][i].h

\* every callback of a three-callback cycle has fired
C10_Witness ==
    \E p \in Procs :
        /\ Len(cycle[p].armed) = 3
        /\ Len(log[p]) = 3
        /\ timers[p] = {}

\* C11 as the specification states it: whichever command loads the store,
\* the document it works on has the rollovers applied; a command that then
\* saves leaves a daily reset stamp that is less than 24 h old and a monthly
\* reset stamp that is less than 30 days old.
C11_EveryLoadRollsOver ==
    [][ ( /\ file # <<>>
          /\ file[1].version # Unparseable
          /\ file' # file )
        => ( /\ now - file'[1].lastReset < 288
             /\ now - file'[1].lastMonthReset < 30 * 288 ) ]_vars

\* instants of a later load of the same store: at once, five minutes later,
\* five minutes before a day has passed
LaterLoads(t) ==
    {t, t + 1, t + 287}

C13_MigrationIdempotent ==
    (file # <<>> /\ file[1].version # Unparseable) =>
        LET once == migrateDataStructure(file[1], now)
        IN  /\ \A t2 \in LaterLoads(now) : migrateDataStructure(once, t2) = once
            /\ file[1].version = "2.0.0" => once = file[1]

\* a command has loaded a two-session document without a version field
C13_Witness ==
    /\ out # "none"
    /\ file[1].version = Absent
    /\ Len(file[1].sessions) = 2
    /\ migrateDataStructure(file[1], now) # file[1]

\* C14: the migrated document has the sessions of the input, as many and in
\* the same order, each with its startTime; a session without endTime in
\* the input has none after migration.
C14_MigrationKeepsSessions ==
    (file # <<>> /\ file[1].version # Unparseable) =>
        LET before == file[1].sessions
            after == migrateDataStructure(file[1], now).sessions
        IN  /\ Len(after) = Len(before)
            /\ \A i \in DOMAIN before :
                   /\ after[i].id = before[i].id
                   /\ after[i].startTime = before[i].startTime
                   /\ before[i].endTime = Null => after[i].endTime = Null
                   /\ before[i].endTime # Null => after[i].endTime = before[i].endTime

\* a command has loaded an old document with an ended and an open session
C14_Witness ==
    /\ out # "none"
    /\ file[1].version \in {Absent, "1.0.0"}
    /\ Len(file[1].sessions) = 2
    /\ file[1].sessions[1].endTime # Null
    /\ file[1].sessions[2].endTime = Null
    /\ file[1].sessions[1].project = Absent

\* C15 as the specification states it: the document that load returns for
\* a parseable file is at the current version and each of its sessions has
\* a mode, a project, a token-usage object and a warnings map.
C15_LoadedShapeIsCurrent ==
    (file # <<>> /\ file[1].version # Unparseable) =>
        LET data == loadData(file, now)
        IN  /\ data.version = "2.0.0"
            /\ \A i \in DOMAIN data.sessions :
                   /\ data.sessions[i].mode # Absent
                   /\ data.sessions[i].project # Absent
                   /\ data.sessions[i].tokens # Null
                   /\ data.sessions[i].warnings # Absent

\* order of the schema versions; a file without a version field is oldest
VersionRank(v) ==
    CASE v = "1.0.0" -> 1
      [] v = "2.0.0" -> 2
      [] v = "3.0.0" -> 3
      [] OTHER -> 0

\* C16 as the specification states it: the version of the document that
\* load returns, and the version of the file after any step, is not lower
\* than the version of the file before.
C16_VersionNeverDecreases ==
    /\ []((file # <<>> /\ file[1].version # Unparseable) =>
              VersionRank(loadData(file, now).version) >= VersionRank(file[1].version))
    /\ [][ (file # <<>> /\ file' # <<>>) =>
               VersionRank(file'[1].version) >= VersionRank(file[1].version) ]_vars

\* C17 as the specification states it: saving what load returns leaves the
\* content of the file as it was, the lastUpdate stamp apart.
C17_RoundTripAsStated ==
    (file # <<>> /\ file[1].version # Unparseable /\ env.writable) =>
        LET saved == saveData(loadData(file, now), now)[1]
        IN  [saved EXCEPT !.lastUpdate = file[1].lastUpdate] = file[1]

\* C17: saving what load returns writes that document with two stamps
\* renewed, lastUpdate (now) and claudeCodeStatus (the status found), and
\* nothing else changed; what load returns is the stored document itself
\* when that is at the current version, and its migration otherwise.
C17_RoundTrip ==
    (file # <<>> /\ file[1].version # Unparseable /\ env.writable) =>
        LET data == loadData(file, now)
            saved == saveData(data, now)[1]
        IN  /\ [saved EXCEPT !.lastUpdate = data.lastUpdate,
                             !.claudeCodeStatus = data.claudeCodeStatus] = data
            /\ saved.lastUpdate = now
            /\ saved.claudeCodeStatus = env.claude
            /\ file[1].version = "2.0.0" => data = file[1]
            /\ file[1].version # "2.0.0" => data = migrateDataStructure(file[1], now)

\* a command has loaded and saved a current-version document, and a save of
\* what is now stored would again renew both stamps
C17_Witness ==
    /\ out \in {"created", "ended"}
    /\ env.writable
    /\ file[1].version = "2.0.0"
    /\ file[1].sessions # <<>>
    /\ file[1].totalUsage > 0
    /\ file[1].lastUpdate # now

\* C18 as the specification states it: no step replaces the content of a
\* store file that does not parse.
C18_UnparseableFileIsKept ==
    [][ (file # <<>> /\ file[1].version = Unparseable) => file' = file ]_vars

\* C19 as the specification states it: when the write of the store fails,
\* start does not report a session as started and arms nothing, and end
\* does not report the session as ended.
C19_FailedSaveIsSurfaced ==
    [][ ( /\ ~env.writable
          /\ \/ \E p \in Procs, mode \in Modes, d \in CustomDurations : StartCmd(p, mode, d)
             \/ EndCmd )
        => ( /\ out' \notin {"created", "ended"}
             /\ timers' = timers ) ]_vars

\* C20 as the specification states it: every timer mode of the registry, in
\* the Config object and in config.json, has a duration above 0 and warning
\* offsets that are all at least 0 and below the duration; a registration
\* that is not of that kind leaves the registry as it was.
C20_RegistryHoldsValidConfigs ==
    \A modes \in {config.mem, config.disk} : \A m \in DOMAIN modes :
        /\ modes[m].duration > 0
        /\ \A i \in DOMAIN modes[m].warnings :
               /\ modes[m].warnings[i] >= 0
               /\ modes[m].warnings[i] < modes[m].duration

\* C21: status is a pure read: whatever the store holds, with or without
\* an active session, a status step leaves the store file (hence every
\* session record) as it was and neither arms nor disarms a timer.
C21_StatusIsPureRead ==
    [][ StatusCmd =>
            /\ file' = file
            /\ timers' = timers
            /\ warningTimeouts' = warningTimeouts
            /\ cancelled' = cancelled ]_vars

\* status has reported on an active session of an old-format store while a
\* start process holds armed timers
C21_Witness ==
    /\ out = "status_active"
    /\ file[1].version # "2.0.0"
    /\ \E p \in Procs : timers[p] # {}

\* C22: whatever external events arrive and however often the detector is
\* restarted, the store holds at most one active session carrying a given
\* externalId.
C22_OneActivePerExternalId ==
    LET sessions == IF file = <<>> THEN <<>> ELSE file[1].sessions
    IN  \A ext \in ExtIds :
            Cardinality({i \in DOMAIN sessions :
                            /\ sessions[i].endTime = Null
                            /\ sessions[i].claudeSessionId = ext}) <= 1

\* C23: an external end event for X ends the active session carrying X as
\* `end` would: endTime is the moment of the event, duration is endTime
\* minus startTime and is added to the daily usage, the document is saved,
\* no timer of that session's warning schedule stays pending and every
\* other session is as it was; when no active session carries X the store
\* is as it was.
C23_ExternalEndAppliesEnd ==
    [][ \A p \in Procs, ext \in ExtIds, timestamp \in EntryTimes, usage \in UsageVals :
            (ProcessJSONLEntry(p, ext, timestamp, usage) /\ timestamp < now - SIX_HOURS) =>
                LET sessionData == countEntry(p, ext, timestamp, usage)
                    before == IF ext \in detectedIds(p)
                              THEN sessionUpdated(file, sessionData, now)
                              ELSE IF proc[p].autoStart
                                   THEN autoStartFile(file, sessionData, now)
                                   ELSE file
                    data == loadData(before, now)
                    i == carrying(data, ext)
                IN  IF i = 0 THEN file' = before
                    ELSE /\ file'[1].sessions[i] =
                                [data.sessions[i] EXCEPT
                                    !.endTime = now,
                                    !.duration = now - data.sessions[i].startTime]
                         /\ file'[1].totalUsage =
                                data.totalUsage + (now - data.sessions[i].startTime)
                         /\ \A j \in DOMAIN data.sessions :
                                j # i => file'[1].sessions[j] = data.sessions[j]
                         /\ DOMAIN file'[1].sessions = DOMAIN data.sessions
                         /\ cycle'[p].sid = i =>
                                pendingOf(timers'[p], warningTimeouts'[p]) = {} ]_vars

\* C24: an external update event for X (an entry of a session the detector
\* already holds, not timed out) changes nothing but the token counters of
\* the first active session carrying X: every other session, ended ones
\* included, every other field of that session, the usage totals and the
\* timers are as they were; when no active session carries X the file is
\* not written.
C24_UpdateChangesOnlyTokens ==
    [][ \A p \in Procs, ext \in ExtIds, timestamp \in EntryTimes, usage \in UsageVals :
            ( /\ ProcessJSONLEntry(p, ext, timestamp, usage)
              /\ ext \in detectedIds(p)
              /\ ~(timestamp < now - SIX_HOURS) ) =>
                LET i == IF file = <<>> THEN 0 ELSE carrying(file[1], ext)
                IN  /\ timers' = timers
                    /\ warningTimeouts' = warningTimeouts
                    /\ IF i = 0 THEN file' = file
                       ELSE /\ DOMAIN file'[1].sessions = DOMAIN file[1].sessions
                            /\ \A j \in DOMAIN file[1].sessions :
                                  j # i => file'[1].sessions[j] = file[1].sessions[j]
                            /\ file'[1].sessions[i] =
                                  [file[1].sessions[i] EXCEPT
                                      !.tokens = countEntry(p, ext, timestamp, usage).tokens]
                            /\ file'[1].totalUsage = file[1].totalUsage
                            /\ file'[1].version = file[1].version ]_vars

\* an update has raised the tokens of the active second session to those of
\* two entries while the first session, carrying the same id, is ended
C24_Witness ==
    /\ file # <<>>
    /\ Len(file[1].sessions) = 2
    /\ file[1].sessions[1].endTime # Null
    /\ file[1].sessions[1].claudeSessionId = file[1].sessions[2].claudeSessionId
    /\ file[1].sessions[2].endTime = Null
    /\ file[1].sessions[2].tokens = 4
    /\ \E p \in Procs : \E d \in detected[p] : d.messageCount = 2

\* C25: delivering a log entry again is without effect on the counters: when
\* the detector is handed the entry it processed last for a session (same
\* session id, same timestamp, same usage), that session's message count
\* and token counters stay what processing the entry once made them.
C25_DuplicateDeliveryIdempotent ==
    [][ \A p \in Procs, ext \in ExtIds, timestamp \in EntryTimes, usage \in UsageVals :
            ( /\ ProcessJSONLEntry(p, ext, timestamp, usage)
              /\ \E d \in detected[p] : d.sessionId = ext /\ d.lastActivity = timestamp ) =>
                \A d \in detected[p] : \A e \in detected'[p] :
                    (d.sessionId = ext /\ e.sessionId = ext) =>
                        /\ e.messageCount = d.messageCount
                        /\ e.tokens = d.tokens ]_vars

\* C26: no polling tick ends the polling loop: whatever the state of the log
\* directory, after a tick the auto process runs as before, the interval is
\* still set and the detector is watching if it was; a tick that finds the
\* directory missing or loses it while reading skips the cycle (no session,
\* store or timer changes), and a later tick scans again.
C26_TickNeverLeavesLoop ==
    [][ \A p \in Procs, dir \in DirStates, ext \in ExtIds, timestamp \in EntryTimes,
           usage \in UsageVals :
            PollTick(p, dir, ext, timestamp, usage) =>
                /\ proc'[p] = proc[p]
                /\ poller'[p].pollingTimer
                /\ poller'[p].isWatching = poller[p].isWatching
                /\ dir # "present" =>
                      /\ file' = file
                      /\ detected' = detected
                      /\ timers' = timers
                      /\ poller' = poller ]_vars

\* a cycle has logged a scan error, and the detector is watching with its
\* interval set and has picked up a session in another cycle
C26_Witness ==
    /\ out = "scan_error"
    /\ \E p \in Procs :
          /\ poller[p].isWatching
          /\ poller[p].pollingTimer
          /\ poller[p].watchedFiles # {}
          /\ detected[p] # {}

\* C27: once the detector is stopped (isWatching false) nothing of it is
\* pending: no interval and no file watcher, whether stopMonitoring came
\* after startMonitoring had finished or while its initial scan was running.
C27_StoppedMeansNothingPending ==
    \A p \in Procs :
        ~poller[p].isWatching =>
            /\ ~poller[p].pollingTimer
            /\ poller[p].watchedFiles = {}

\* C28: when a start or an auto process is interrupted, its handler has
\* disarmed every pending warning and expiry timer (the pending-timer list
\* is empty and no timer is pending) when it calls process.exit.
C28_InterruptDisarmsBeforeExit ==
    [][ \A p \in Procs :
            Sigint(p) =>
                /\ sigintHandler(p).warningTimeouts = <<>>
                /\ sigintHandler(p).timers = {} ]_vars

\* C29: a save replaces the store file atomically: whenever status reads the
\* file while another process saves, it finds a complete document (the one
\* before the save or the one after it), never an empty or partial file.
C29_ReaderSeesCompleteDocument ==
    [][ StatusCmd => (file = <<>> \/ file[1].version # Unparseable) ]_vars

\* C30: reset restores the built-in defaults: after every reset, whatever
\* set, setTimerMode, load and reset operations came before it, the Config
\* object answers every timerModes path with the built-in default.
C30_ResetRestoresDefaults ==
    [][ ConfigReset => config'.mem = DefaultTimerModes ]_vars

\* C31: every session created by start holds a valid timer config: its
\* duration is above 0 and each of its warning offsets is strictly less
\* than its duration, for every mode and every --duration value.
C31_CapturedConfigValid ==
    file # <<>> =>
        \A i \in DOMAIN file[1].sessions :
            LET timerConfig == file[1].sessions[i].timerConfig
            IN  timerConfig # NoConfig =>
                    /\ timerConfig.duration > 0
                    /\ \A k \in DOMAIN timerConfig.warnings :
                          timerConfig.warnings[k] < timerConfig.duration

\* C32: a start leaves the registry's custom entry, as the starting process's
\* getTimerMode('custom') returns it afterwards, with the duration it had
\* before, and a --duration given with another mode changes nothing in the
\* captured config.
C32_OverrideLeavesRegistry ==
    [][\A p \in Procs, mode \in Modes, customDuration \in CustomDurations :
          (StartCmd(p, mode, customDuration) /\ out' = "created") =>
              /\ proc'[p].timerModes["custom"].duration = getTimerMode("custom").duration
              /\ mode # "custom" =>
                    file'[1].sessions[Len(file'[1].sessions)].timerConfig
                        = getTimerMode(mode)]_vars

\* C32 (part that holds): the configuration file is untouched by start, and an
\* override given with a mode other than custom is ignored.
C32_OverrideLeavesDisk ==
    [][\A p \in Procs, mode \in Modes, customDuration \in CustomDurations :
          (StartCmd(p, mode, customDuration) /\ out' = "created") =>
              /\ config'.disk = config.disk
              /\ mode # "custom" =>
                    file'[1].sessions[Len(file'[1].sessions)].timerConfig.duration
                        = config.disk[mode].duration]_vars

\* C33: when a warning callback fires while the session it was armed for is
\* active, that session's warnings flags in the store are no longer the
\* all-false flags it was created with, and flags that have left that value
\* never return to it.
C33_WarningRecorded ==
    [][/\ \A p \in Procs :
             (/\ FireWarning(p)
              /\ file # <<>>
              /\ cycle[p].sid \in activeSessions(file[1]))
                 => file'[1].sessions[cycle[p].sid].warnings # "unfired"
       /\ (file # <<>> /\ file' # <<>>) =>
             \A i \in DOMAIN file[1].sessions \cap DOMAIN file'[1].sessions :
                 file[1].sessions[i].warnings # "unfired"
                     => file'[1].sessions[i].warnings # "unfired"]_vars

\* C34: the stored session sequence is append-only: a step never shortens it,
\* and every record keeps its position, its id, its startTime and its mode
\* (a record stored without a mode may be given one).
C34_SessionsAppendOnly ==
    [][(/\ file # <<>> /\ file[1].version # Unparseable
        /\ file' # <<>> /\ file'[1].version # Unparseable) =>
           /\ Len(file'[1].sessions) >= Len(file[1].sessions)
           /\ \A i \in DOMAIN file[1].sessions :
                 /\ file'[1].sessions[i].id = file[1].sessions[i].id
                 /\ file'[1].sessions[i].startTime = file[1].sessions[i].startTime
                 /\ file[1].sessions[i].mode # Absent =>
                       file'[1].sessions[i].mode = file[1].sessions[i].mode]_vars

\* C34 witness: a second record has been appended behind the first
C34_Appended ==
    /\ file # <<>>
    /\ Len(file[1].sessions) = 2
    /\ file[1].sessions[1].endTime # Null
    /\ file[1].sessions[2].id = 2

\* ------------------------------------- records of every shape, migrated
\* stored records with each of mode, tokens, project and warnings present
\* or absent, ended or still active
FieldCombinations ==
    {[id |-> 1, startTime |-> -3, endTime |-> e,
      duration |-> IF e = Null THEN Null ELSE e + 3,
      mode |-> m, claudeSessionId |-> Null, tokens |-> k, timerConfig |-> NoConfig,
      project |-> pr, warnings |-> w] :
        e \in {Null, -2}, m \in {Absent, "pomodoro"}, k \in {Null, 1},
        pr \in {Absent, "detected"}, w \in {Absent, "unfired"}}

\* the files holding them: written before versions were stamped, or current;
\* the usage accumulator is the ended record's duration, or is missing
MigrateDocs ==
    UNION {
        {[version |-> v, sessions |-> <<session>>, totalUsage |-> u, lastReset |-> -3,
          monthlySessionCount |-> 1, lastMonthReset |-> -3, lastUpdate |-> -3,
          claudeCodeStatus |-> "authenticated"] :
            v \in {Absent, "2.0.0"},
            u \in {Null, IF session.endTime = Null THEN 0 ELSE session.duration}} :
        session \in FieldCombinations}

InitMigrate ==
    /\ now = 0
    /\ file \in {<<d>> : d \in MigrateDocs}
    /\ proc = [p \in Procs |-> NoProc]
    /\ timers = [p \in Procs |-> {}]
    /\ warningTimeouts = [p \in Procs |-> <<>>]
    /\ nextHandle = [p \in Procs |-> 1]
    /\ detected = [p \in Procs |-> {}]
    /\ poller = [p \in Procs |-> NoPoller]
    /\ cycle = [p \in Procs |-> NoCycle]
    /\ log = [p \in Procs |-> <<>>]
    /\ cancelled = [p \in Procs |-> {}]
    /\ out = "none"
    /\ writing = <<>>
    /\ env = [claude |-> "authenticated", writable |-> TRUE]
    /\ config = [mem |-> DefaultTimerModes, disk |-> DefaultTimerModes,
                 defaults |-> DefaultTimerModes, shared |-> TRUE]

NextMigrate ==
    \/ \E p \in Procs : StartCmd(p, "claude-max", 0)
    \/ EndCmd
    \/ StatusCmd
    \/ \E p \in Procs : Sigint(p)

SpecMigrate ==
    InitMigrate /\ [][NextMigrate]_vars

\* C35: a command that loads and saves the store leaves every stored
\* record's mode, token counter and warnings flags, where the record had
\* them, with the values they had.
C35_MigrationKeepsPresentFields ==
    [][\A i \in DOMAIN file[1].sessions :
          LET session == file[1].sessions[i]
              migrated == file'[1].sessions[i]
          IN  /\ session.mode # Absent => migrated.mode = session.mode
              /\ session.tokens # Null => migrated.tokens = session.tokens
              /\ session.warnings # Absent => migrated.warnings = session.warnings]_vars

\* C36: the stored monthly session counter equals the number of stored
\* sessions started at or after the stored monthly reset stamp, whether
\* start or an external start event created them.
C36_MonthlyCountMatchesSessions ==
    (file # <<>> /\ file[1].version # Unparseable) =>
        file[1].monthlySessionCount =
            Cardinality({i \in DOMAIN file[1].sessions :
                            file[1].sessions[i].startTime >= file[1].lastMonthReset})

\* C36 (start alone): a start that creates a session adds one to the stored
\* counter and one that finds an active session leaves the file as it is.
C36_StartCountsOne ==
    [][\A p \in Procs, mode \in Modes, customDuration \in CustomDurations :
          StartCmd(p, mode, customDuration) =>
              IF out' = "created"
              THEN file'[1].monthlySessionCount =
                       resetCounters(loadData(file, now), now).monthlySessionCount + 1
              ELSE file' = file]_vars

\* the durations of the stored sessions ended at or after the daily reset stamp
RECURSIVE usageSince(_, _)
usageSince(data, i) ==
    IF i = 0 THEN 0
    ELSE usageSince(data, i - 1)
           + (IF /\ data.sessions[i].endTime # Null
                 /\ data.sessions[i].endTime >= data.lastReset
              THEN data.sessions[i].duration ELSE 0)

\* C37: every store state written by start, end or an external end event
\* holds a daily usage accumulator that is a number, not negative, and equal
\* to the sum of the durations of the sessions ended at or after the stored
\* daily reset stamp, also when the file read had no accumulator field.
C37_UsageMatchesSessions ==
    [][(file' # file /\ file' # <<>> /\ file'[1].version # Unparseable) =>
           /\ file'[1].totalUsage >= 0
           /\ file'[1].totalUsage = usageSince(file'[1], Len(file'[1].sessions))]_vars

\* ----------------------------- trackers of several shells on one store
\* `session-tracker.js start` run from another shell: what it leaves in the
\* store file; the timers it arms belong to that other process and are not
\* followed here
StartElsewhere(mode) ==
    /\ InWindow
    /\ LET data == resetCounters(loadData(file, now), now)
       IN  IF activeSessions(data) # {}
           THEN out' = "already_active"
           ELSE /\ Len(data.sessions) < MaxSessions
                /\ out' = "created"
    /\ file' = startFile(file, now, mode, 0)
    /\ UNCHANGED <<now, proc, timers, warningTimeouts, nextHandle, detected, poller, cycle,
                   log, cancelled>>
    /\ UNCHANGED <<writing, env, config>>

\* the background tracker of claude-session-start.sh with `end`, `status`
\* and further `start` invocations given beside it
NextShared ==
    \/ \E p \in Procs, mode \in StoreModes : StartCmd(p, mode, 0)
    \/ \E mode \in StoreModes : StartElsewhere(mode)
    \/ EndCmd
    \/ StatusCmd
    \/ \E p \in Procs : FireWarning(p)
    \/ \E p \in Procs : FireExpired(p)
    \/ \E p \in Procs : FireAutoEnd(p)
    \/ Tick
    \/ JumpToTimer

SpecShared ==
    Init /\ [][NextShared]_vars

\* C38: the auto-end callback of the schedule armed for session S sets
\* endTime on no session other than S, and leaves the store as it is when S
\* has already been ended.
C38_AutoEndEndsOwnSession ==
    [][\A p \in Procs :
          (FireAutoEnd(p) /\ cycle[p].sid \in DOMAIN file[1].sessions) =>
              /\ \A i \in DOMAIN file[1].sessions \ {cycle[p].sid} :
                    file'[1].sessions[i].endTime = file[1].sessions[i].endTime
              /\ file[1].sessions[cycle[p].sid].endTime # Null => file' = file]_vars

\* C39: for an active session, status reports as remaining time the
\* duration of the session's own timer mode less the elapsed time, never
\* below 0, and reports EXPIRED exactly when that remaining time is 0.
C39_StatusUsesSessionDuration ==
    [][(StatusCmd /\ out' = "status_active") =>
          LET data == loadData(file, now)
              session == data.sessions[firstActive(data)]
              D == IF session.timerConfig # NoConfig THEN session.timerConfig.duration
                   ELSE getTimerMode(session.mode).duration
              elapsed == now - session.startTime
              expected == IF D - elapsed > 0 THEN D - elapsed ELSE 0
          IN  /\ statusReport(file, now).remaining = expected
              /\ statusReport(file, now).indicator = "EXPIRED" <=> expected = 0]_vars

\* C39 (claude-max sessions): for a session of the 5-hour mode the report is
\* the remaining time of its own mode.
C39_StatusOfClaudeMax ==
    [][(StatusCmd /\ out' = "status_active") =>
          LET data == loadData(file, now)
              session == data.sessions[firstActive(data)]
              elapsed == now - session.startTime
          IN  session.mode = "claude-max" =>
                  statusReport(file, now).remaining
                      = (IF 60 - elapsed > 0 THEN 60 - elapsed ELSE 0)]_vars

\* ------------------------------------- the detector while the logs rest
\* timestamps of the entries read: now, or exactly six hours old, which the
\* next five minutes make stale
IdleEntryTimes == {-SIX_HOURS, 0}

\* the detector with entries that arrive or do not; a polling cycle that
\* finds no file changed processes no entry and changes nothing
NextIdle ==
    \/ \E p \in Procs, a \in BOOLEAN : LaunchAuto(p, a)
    \/ \E p \in Procs, ext \in ExtIds, timestamp \in IdleEntryTimes, usage \in UsageVals :
           PollTick(p, "present", ext, timestamp, usage)
    \/ \E p \in Procs : FireWarning(p)
    \/ \E p \in Procs : FireExpired(p)
    \/ \E p \in Procs : Sigint(p)
    \/ Tick
    \/ JumpToTimer

SpecIdle ==
    Init /\ [][NextIdle]_vars

\* the clock goes on and due timers run; nothing obliges a log entry to be
\* written
SpecIdleFair ==
    /\ SpecIdle
    /\ WF_vars(Tick)
    /\ WF_vars(JumpToTimer)
    /\ \A p \in Procs : WF_vars(FireWarning(p)) /\ WF_vars(FireExpired(p))

\* C40: while the detector is watching, a detected session whose last
\* activity is more than six hours old is eventually dropped from the
\* detector's map (reported as ended), whether or not another log entry is
\* written.
C40_StaleSessionEventuallyEnded ==
    \A p \in Procs, ext \in ExtIds :
        (/\ poller[p].isWatching
         /\ \E d \in detected[p] :
               d.sessionId = ext /\ d.lastActivity < now - SIX_HOURS)
            ~> (~poller[p].isWatching \/ ext \notin detectedIds(p))

\* C40 (order of events): with automatic start, no external session is
\* reported as started twice, so no two stored records carry one external id.
C40_StartedOncePerSession ==
    file # <<>> =>
        \A i, j \in DOMAIN file[1].sessions :
            (/\ i # j
             /\ file[1].sessions[i].claudeSessionId # Null)
                => file[1].sessions[i].claudeSessionId # file[1].sessions[j].claudeSessionId

====
